---- MODULE Spec2Model ----
(***************************************************************************)
(* Attestation verification pipeline of receive-kit: the /api/receive      *)
(* handler (src/index.ts 191-265), its validators (validation, found in    *)
(* src/unnamed/part_001) and utilities (utils, src/unnamed/part_000 1-24). *)
(*                                                                         *)
(* JavaScript values are modelled as tagged trees.  A JS string is a       *)
(* sequence of atoms (TLA+ strings standing for one or more characters),   *)
(* so that trim(), concatenation and hex decoding are real operations.     *)
(***************************************************************************)
EXTENDS Integers, Sequences, FiniteSets, TLC

VARIABLES
    \* ---- the /api/receive handler (one run) ----
    pc,                  \* position of the handler
    body,                \* req.body
    shareKitResData,     \* the canonicalized claim (index.ts 203-204)
    reqFormatValidation, \* result of the shape stage
    basicOffChainValidation, \* result of the off-chain integrity stage
    offChainValidation,  \* result of the per-node payload stage
    onChainValidation,   \* result of the on-chain stage
    evaluated,           \* history: the stages evaluated so far, in order
    fetch,               \* one log lookup per data node: its state and result
    decodedDataAndLogs,  \* the array the lookups push into
    response,            \* what res.status(..).json(..) sent, if anything
    \* ---- sortObject applied to an arbitrary tree ----
    tree, sorted, sortPc,
    twin,                \* the same tree with its properties created in another order
    sortedTwin,          \* sortObject(twin)
    sortedAgain,         \* sortObject(sortObject(tree))
    \* ---- validateOnChainProperties applied to arbitrary logs ----
    ocSubject, ocEntries, ocErrors, ocIdx, ocPc,
    \* ---- two calls of the handler in one process ----
    runs,                \* the locals of each call
    heap                 \* the arrays allocated by the calls, by reference

vars == <<pc, body, shareKitResData, reqFormatValidation,
          basicOffChainValidation, offChainValidation, onChainValidation,
          evaluated, fetch, decodedDataAndLogs, response,
          tree, sorted, sortPc, twin, sortedTwin, sortedAgain,
          ocSubject, ocEntries, ocErrors, ocIdx, ocPc, runs, heap>>

pipeVars == <<pc, body, shareKitResData, reqFormatValidation,
              basicOffChainValidation, offChainValidation, onChainValidation,
              evaluated, fetch, decodedDataAndLogs, response>>
sortVars == <<tree, sorted, sortPc, twin, sortedTwin, sortedAgain>>
ocVars == <<ocSubject, ocEntries, ocErrors, ocIdx, ocPc>>
runVars == <<runs, heap>>

(***************************************************************************)
(* Bounds                                                                  *)
(***************************************************************************)
\* number of nodes (mappings, arrays, leaves) of a tree handed to sortObject
MaxSize == 5
\* number of data nodes of a claim
MaxNodes == 2
\* number of decoded events over all the log sequences handed to
\* validateOnChainProperties
MaxLogs == 2

(***************************************************************************)
(* Generic helpers                                                         *)
(***************************************************************************)
Range(s) == {s[i] : i \in DOMAIN s}

RECURSIVE Flatten(_)
Flatten(ss) == IF ss = <<>> THEN <<>> ELSE Head(ss) \o Flatten(Tail(ss))

IndexOf(s, x) == CHOOSE i \in DOMAIN s : s[i] = x

\* sequences over S of length exactly n
SeqsOfLen(S, n) == [1..n -> S]

(***************************************************************************)
(* JavaScript values                                                       *)
(*   t = "str"  : a string, s its atoms                                    *)
(*   t = "num"  : a number, s its digits                                   *)
(*   t = "null" : null                                                     *)
(*   t = "undefined" : undefined (an absent property)                      *)
(*   t = "arr"  : an array, kids its elements                              *)
(*   t = "obj"  : an object, keys its own property names in enumeration    *)
(*                order and kids the values, position by position          *)
(***************************************************************************)
Str(s) == [t |-> "str", s |-> s, keys |-> <<>>, kids |-> <<>>]
Num(s) == [t |-> "num", s |-> s, keys |-> <<>>, kids |-> <<>>]
Null == [t |-> "null", s |-> <<>>, keys |-> <<>>, kids |-> <<>>]
Undefined == [t |-> "undefined", s |-> <<>>, keys |-> <<>>, kids |-> <<>>]
Arr(kids) == [t |-> "arr", s |-> <<>>, keys |-> <<>>, kids |-> kids]
Obj(keys, kids) == [t |-> "obj", s |-> <<>>, keys |-> keys, kids |-> kids]
EmptyObj == Obj(<<>>, <<>>)

\* object[key]
Get(object, key) ==
    IF object.t = "obj" /\ key \in Range(object.keys)
    THEN object.kids[IndexOf(object.keys, key)]
    ELSE Undefined

(***************************************************************************)
(* Property names.  KeyOrder lists every property name of the model in     *)
(* ascending order of JavaScript's string comparison (UTF-16 code units):  *)
(* "-" (0x2D) < "0" (0x30) < "a" ..., which is the order _.sortBy gives.   *)
(* ArrayIndexOrder lists the names that are canonical array indices: an    *)
(* object enumerates those first, in ascending numeric order, whatever the *)
(* order they were created in, and the other names after them in creation  *)
(* order.                                                                  *)
(***************************************************************************)
KeyOrder == <<"-1", "0", "a", "attester", "data", "layer2Hash", "packedData",
              "proof", "signature", "subject", "token", "tx">>
KeyRank(k) == IndexOf(KeyOrder, k)
KeyLess(a, b) == KeyRank(a) < KeyRank(b)
ArrayIndexOrder == <<"0">>
IsArrayIndex(k) == k \in Range(ArrayIndexOrder)

\* where a new property name lands in an object's enumeration order: an array
\* index goes among the array indices, in ascending numeric order, and any
\* other name goes last
PutPosition(keys, key) ==
    IF IsArrayIndex(key)
    THEN 1 + Cardinality({i \in DOMAIN keys :
                 /\ IsArrayIndex(keys[i])
                 /\ IndexOf(ArrayIndexOrder, keys[i]) < IndexOf(ArrayIndexOrder, key)})
    ELSE Len(keys) + 1

InsertAt(s, i, x) == SubSeq(s, 1, i - 1) \o <<x>> \o SubSeq(s, i, Len(s))

\* object[key] = value
ObjSet(object, key, value) ==
    IF key \in Range(object.keys)
    THEN Obj(object.keys,
             [object.kids EXCEPT ![IndexOf(object.keys, key)] = value])
    ELSE LET i == PutPosition(object.keys, key)
         IN Obj(InsertAt(object.keys, i, key), InsertAt(object.kids, i, value))

(***************************************************************************)
(* utils: isNullOrWhiteSpace and sortObject                                *)
(***************************************************************************)
WhiteSpace == {" "}

RECURSIVE trimStart(_)
trimStart(s) ==
    IF s # <<>> /\ Head(s) \in WhiteSpace THEN trimStart(Tail(s)) ELSE s

RECURSIVE trimEnd(_)
trimEnd(s) ==
    IF s # <<>> /\ s[Len(s)] \in WhiteSpace
    THEN trimEnd(SubSeq(s, 1, Len(s) - 1))
    ELSE s

\* value.trim()
trim(s) == trimEnd(trimStart(s))

isNullOrWhiteSpace(value) == value.t # "str" \/ trim(value.s) = <<>>

\* _.keys(object), for the values sortObject is applied to: an object has its
\* own names in enumeration order; null, undefined and numbers have none
lodashKeys(object) == IF object.t = "obj" THEN object.keys ELSE <<>>

\* the keys left in the order they were found
sortByNothing(keys) == keys

\* the first key moved behind the others
sortByRotated(keys) == IF keys = <<>> THEN <<>> ELSE Tail(keys) \o <<Head(keys)>>

\* _.sortBy(keys, key => key): a stable ascending sort
RECURSIVE InsertSorted(_, _)
InsertSorted(s, k) ==
    IF s = <<>> THEN <<k>>
    ELSE IF KeyLess(k, Head(s)) THEN <<k>> \o s
    ELSE <<Head(s)>> \o InsertSorted(Tail(s), k)

RECURSIVE sortBy(_)
sortBy(keys) ==
    IF keys = <<>> THEN <<>>
    ELSE InsertSorted(sortBy(SubSeq(keys, 1, Len(keys) - 1)), keys[Len(keys)])

\* no value taken for a nested mapping
IsNeverNested(v) == FALSE

\* typeof v === "object" && !(v instanceof Array)
IsNonArrayObject(v) == v.t \in {"obj", "null"}

RECURSIVE sortObject(_)
RECURSIVE sortEach(_, _, _)
\* the _.each loop of sortObject over the sorted keys
sortEach(keys, object, sortedObj) ==
    IF keys = <<>> THEN sortedObj
    ELSE LET key == Head(keys)
             v == Get(object, key)
         IN sortEach(Tail(keys), object,
                     ObjSet(sortedObj, key,
                            IF IsNonArrayObject(v) THEN sortObject(v) ELSE v))

sortObject(object) == sortEach(sortBy(lodashKeys(object)), object, EmptyObj)

(***************************************************************************)
(* The trees sortObject is checked on: every tree of at most MaxSize nodes *)
(* whose root is an object, over the names SortKeys and the leaves "x" and *)
(* null.  A tree is built the way a JSON parser builds it, one value at a  *)
(* time: a new property is created in its object (so array-index names     *)
(* enumerate first), a new element is appended to its array.               *)
(***************************************************************************)
SortKeys == {"-1", "0", "a"}
Leaves == {Str(<<"x">>), Null}
NewValues == Leaves \cup {EmptyObj, Arr(<<>>)}

RECURSIVE Size(_)
Size(v) == 1 + (IF v.kids = <<>> THEN 0
                ELSE LET sizes == [i \in DOMAIN v.kids |-> Size(v.kids[i])]
                         sum[i \in 0..Len(sizes)] ==
                             IF i = 0 THEN 0 ELSE sum[i - 1] + sizes[i]
                     IN sum[Len(sizes)])

\* the trees that have one value more than v
RECURSIVE Extensions(_)
Extensions(v) ==
    LET inside == UNION {{[v EXCEPT !.kids[i] = e] : e \in Extensions(v.kids[i])} :
                            i \in DOMAIN v.kids}
    IN CASE v.t = "obj" ->
              {ObjSet(v, k, c) : k \in SortKeys \ Range(v.keys), c \in NewValues}
                  \cup inside
         [] v.t = "arr" -> {Arr(Append(v.kids, c)) : c \in NewValues} \cup inside
         [] OTHER -> {}

(***************************************************************************)
(* External primitives, as the handler uses them                           *)
(***************************************************************************)
\* JSON.stringify(v): the text, atom by atom.  A property whose value is
\* undefined is left out of an object; an undefined element of an array is
\* written null.
Quoted(s) == <<"\"">> \o s \o <<"\"">>

RECURSIVE Join(_)
Join(parts) ==
    IF parts = <<>> THEN <<>>
    ELSE IF Len(parts) = 1 THEN Head(parts)
    ELSE Head(parts) \o <<",">> \o Join(Tail(parts))

RECURSIVE stringify(_)
stringify(v) ==
    CASE v.t = "str" -> Quoted(v.s)
      [] v.t = "num" -> v.s
      [] v.t = "null" -> <<"null">>
      [] v.t = "undefined" -> <<"null">>
      [] v.t = "arr" ->
            <<"[">> \o Join([i \in DOMAIN v.kids |-> stringify(v.kids[i])]) \o <<"]">>
      [] v.t = "obj" ->
            LET shown == SelectSeq([i \in DOMAIN v.keys |-> i],
                                   LAMBDA i : v.kids[i].t # "undefined")
            IN <<"{">>
               \o Join([j \in DOMAIN shown |->
                          Quoted(<<v.keys[shown[j]]>>) \o <<":">>
                              \o stringify(v.kids[shown[j]])])
               \o <<"}">>

\* keccak256(text): the digest in lower-case hex digits.  The digest is
\* modelled collision-free: it is the atom "keccak256" followed by the text.
keccak256(text) == <<"keccak256">> \o text

\* The same hex digits written in upper case: the atom "KECCAK256" stands for
\* the upper-case spelling of the digest.
UpperHex(hex) == [i \in DOMAIN hex |-> IF hex[i] = "keccak256" THEN "KECCAK256" ELSE hex[i]]
LowerHex(hex) == [i \in DOMAIN hex |-> IF hex[i] = "KECCAK256" THEN "keccak256" ELSE hex[i]]

\* toBuffer(hexString): the bytes of a "0x"-prefixed hex string; hex decoding
\* does not distinguish the case of the digits
toBuffer(hexString) ==
    IF hexString # <<>> /\ Head(hexString) = "0x"
    THEN LowerHex(Tail(hexString))
    ELSE LowerHex(hexString)

\* signing keys and their addresses
SigningKeys == {"keyA", "keyB"}
AddressOf(key) == IF key = "keyA" THEN <<"0xA">> ELSE <<"0xB">>
\* the address recovered when the signature was not made over these bytes:
\* one that no claim of the model names as its subject
UnrelatedAddress == <<"0x", "unrelated">>

\* the signature of the bytes by the key
Sign(key, bytes) == <<"sig", key>> \o bytes

\* HashingLogic.recoverHashSigner(bytes, signature)
recoverHashSigner(bytes, signature) ==
    IF /\ Len(signature) >= 2
       /\ signature[1] = "sig"
       /\ signature[2] \in SigningKeys
       /\ SubSeq(signature, 3, Len(signature)) = bytes
    THEN AddressOf(signature[2])
    ELSE UnrelatedAddress

\* shareKitUtil.verifyOffChainDataIntegrity(d): the errors of a data node's
\* payload.  The payload is the property "proof" of the node: "ok" has no
\* error, "bad" has one and anything else has two.
verifyOffChainDataIntegrity(d) ==
    LET proof == Get(d, "proof")
    IN IF proof = Str(<<"ok">>) THEN <<>>
       ELSE IF proof = Str(<<"bad">>)
            THEN <<[key |-> "proof", message |-> <<>>]>>
            ELSE <<[key |-> "proof", message |-> <<>>],
                   [key |-> "layer2Hash", message |-> <<>>]>>

(***************************************************************************)
(* txUtils: the ledger and its decoded event logs                          *)
(***************************************************************************)
Event(name, dataHash, subject, attester) ==
    [name |-> name,
     values |-> [dataHash |-> dataHash, subject |-> subject, attester |-> attester]]

\* getDecodedLogValueByName(l, name)
getDecodedLogValueByName(l, name) ==
    IF name \in DOMAIN l.values THEN Str(l.values[name]) ELSE Undefined

Txs == {"tx1", "tx2", "tx3"}

\* what getDecodedTxEventLogs(provider, tx) resolves to, when it resolves
Ledger ==
    [tx \in Txs |->
        CASE tx = "tx1" ->
               <<Event("TraitAttested", <<"h1">>, <<"0xA">>, <<"at1">>)>>
          [] tx = "tx2" ->
               <<Event("Transfer", <<"h1">>, <<"0xA">>, <<"at1">>),
                 Event("TraitAttested", <<"h2">>, <<"0xA">>, <<"at2">>)>>
          [] tx = "tx3" ->
               <<Event("TraitAttested", <<"h3">>, <<"0xB">>, <<"at2">>),
                 Event("TraitAttested", <<"h3">>, <<"0xA">>, <<"at1">>)>>]

getDecodedTxEventLogs(tx) == Ledger[tx.s[1]]

(***************************************************************************)
(* validation: the three validators                                        *)
(***************************************************************************)
\* { key, message }: message is the fixed text followed by the values the
\* code interpolates into it
Error(key, message) == [key |-> key, message |-> message]

\* errors.push(e) when the condition holds
PushIf(cond, e) == IF cond THEN <<e>> ELSE <<>>

\* the validator returning at the first field it refuses
validateRequestFormatShortCircuit(reqBody) ==
    IF isNullOrWhiteSpace(Get(reqBody, "token"))
    THEN <<Error("token", <<<<"requires a non-whitespace 'token'">>>>)>>
    ELSE IF isNullOrWhiteSpace(Get(reqBody, "subject"))
    THEN <<Error("subject", <<<<"requires a non-whitespace 'subject'">>>>)>>
    ELSE IF Get(reqBody, "data").t # "arr" \/ Len(Get(reqBody, "data").kids) = 0
    THEN <<Error("data", <<<<"requires a non-empty 'data'">>>>)>>
    ELSE IF isNullOrWhiteSpace(Get(reqBody, "packedData"))
    THEN <<Error("packedData", <<<<"requires a non-whitespace 'packedData'">>>>)>>
    ELSE PushIf(isNullOrWhiteSpace(Get(reqBody, "signature")),
                Error("signature", <<<<"requires a non-whitespace 'signature'">>>>))

validateRequestFormat(reqBody) ==
    PushIf(isNullOrWhiteSpace(Get(reqBody, "token")),
           Error("token", <<<<"requires a non-whitespace 'token'">>>>))
    \o PushIf(isNullOrWhiteSpace(Get(reqBody, "subject")),
           Error("subject", <<<<"requires a non-whitespace 'subject'">>>>))
    \o PushIf(Get(reqBody, "data").t # "arr" \/ Len(Get(reqBody, "data").kids) = 0,
           Error("data", <<<<"requires a non-empty 'data'">>>>))
    \o PushIf(isNullOrWhiteSpace(Get(reqBody, "packedData")),
           Error("packedData", <<<<"requires a non-whitespace 'packedData'">>>>))
    \o PushIf(isNullOrWhiteSpace(Get(reqBody, "signature")),
           Error("signature", <<<<"requires a non-whitespace 'signature'">>>>))

\* "0x" + keccak256(JSON.stringify({ data, token }))
recoveredPackedData(data, token) ==
    <<"0x">> \o keccak256(stringify(
        ObjSet(ObjSet(EmptyObj, "data", data), "token", token)))

\* the validator with the signature check left out
validateBasicOffChainHashOnly(resData) ==
    LET recovered == recoveredPackedData(Get(resData, "data"), Get(resData, "token"))
    IN PushIf(Get(resData, "packedData") # Str(recovered),
              Error("packedData", <<<<"recovered packed data does not match">>,
                                    Get(resData, "packedData").s, recovered>>))

\* the validator returning at its first error
validateBasicOffChainFirstErrorOnly(resData) ==
    LET signerEthAddress ==
            recoverHashSigner(toBuffer(Get(resData, "packedData").s),
                              Get(resData, "signature").s)
        recovered == recoveredPackedData(Get(resData, "data"), Get(resData, "token"))
    IN IF Get(resData, "subject") # Str(signerEthAddress)
       THEN <<Error("subject", <<<<"recovered subject does not match">>,
                                  Get(resData, "subject").s, signerEthAddress>>)>>
       ELSE PushIf(Get(resData, "packedData") # Str(recovered),
              Error("packedData", <<<<"recovered packed data does not match">>,
                                    Get(resData, "packedData").s, recovered>>))

\* the validator with the hash check left out
validateBasicOffChainSignerOnly(resData) ==
    LET signerEthAddress ==
            recoverHashSigner(toBuffer(Get(resData, "packedData").s),
                              Get(resData, "signature").s)
    IN PushIf(Get(resData, "subject") # Str(signerEthAddress),
              Error("subject", <<<<"recovered subject does not match">>,
                                 Get(resData, "subject").s, signerEthAddress>>))

validateBasicOffChainProperties(resData) ==
    LET signerEthAddress ==
            recoverHashSigner(toBuffer(Get(resData, "packedData").s),
                              Get(resData, "signature").s)
        recovered == recoveredPackedData(Get(resData, "data"), Get(resData, "token"))
    IN PushIf(Get(resData, "subject") # Str(signerEthAddress),
              Error("subject", <<<<"recovered subject does not match">>,
                                 Get(resData, "subject").s, signerEthAddress>>))
       \o PushIf(Get(resData, "packedData") # Str(recovered),
              Error("packedData", <<<<"recovered packed data does not match">>,
                                    Get(resData, "packedData").s, recovered>>))

\* the find looking at the name of the event alone
findFirstTraitAttested(dl) ==
    LET hits == {i \in DOMAIN dl.logs : dl.logs[i].name = "TraitAttested"}
    IN IF hits = {} THEN 0 ELSE CHOOSE i \in hits : \A j \in hits : i <= j

\* dl.logs.find(l => l.name === "TraitAttested" &&
\*     getDecodedLogValueByName(l, "dataHash") === dl.shareData.layer2Hash):
\* the position of the first such log, 0 when there is none
findMatchingTraitAttested(dl) ==
    LET hits == {i \in DOMAIN dl.logs :
                    /\ dl.logs[i].name = "TraitAttested"
                    /\ getDecodedLogValueByName(dl.logs[i], "dataHash")
                           = Get(dl.shareData, "layer2Hash")}
    IN IF hits = {} THEN 0 ELSE CHOOSE i \in hits : \A j \in hits : i <= j

\* the callback without its return after the TraitAttested error: the
\* comparisons go on against an event that is not there
onChainErrorsOfNoReturn(subject, dl) ==
    LET found == findMatchingTraitAttested(dl)
        onChainSubjectAddress ==
            IF found = 0 THEN Undefined
            ELSE getDecodedLogValueByName(dl.logs[found], "subject")
        onChainAttesterAddress ==
            IF found = 0 THEN Undefined
            ELSE getDecodedLogValueByName(dl.logs[found], "attester")
    IN PushIf(found = 0,
              Error("TraitAttested",
                    <<<<"Unable to find 'TraitAttested' event logs with a 'dataHash' of">>,
                      Get(dl.shareData, "layer2Hash").s>>))
       \o PushIf(subject # onChainSubjectAddress,
              Error("subject", <<<<"on chain subject does not match">>,
                                 subject.s, onChainSubjectAddress.s>>))
       \o PushIf(Get(dl.shareData, "attester") # onChainAttesterAddress,
              Error("attester", <<<<"on chain attester does not match">>,
                                  Get(dl.shareData, "attester").s,
                                  onChainAttesterAddress.s>>))

\* the errors one call of the forEach callback pushes
onChainErrorsOf(subject, dl) ==
    LET found == findMatchingTraitAttested(dl)
    IN IF found = 0
       THEN <<Error("TraitAttested",
                    <<<<"Unable to find 'TraitAttested' event logs with a 'dataHash' of">>,
                      Get(dl.shareData, "layer2Hash").s>>)>>
       ELSE LET matchingTraitAttestedLogs == dl.logs[found]
                onChainSubjectAddress ==
                    getDecodedLogValueByName(matchingTraitAttestedLogs, "subject")
                onChainAttesterAddress ==
                    getDecodedLogValueByName(matchingTraitAttestedLogs, "attester")
            IN PushIf(subject # onChainSubjectAddress,
                      Error("subject", <<<<"on chain subject does not match">>,
                                         subject.s, onChainSubjectAddress.s>>))
               \o PushIf(Get(dl.shareData, "attester") # onChainAttesterAddress,
                      Error("attester", <<<<"on chain attester does not match">>,
                                          Get(dl.shareData, "attester").s,
                                          onChainAttesterAddress.s>>))

\* the cross-validator looking at its first entry alone
validateOnChainFirstEntryOnly(subject, decodedLogsAndData) ==
    IF decodedLogsAndData = <<>> THEN <<>>
    ELSE onChainErrorsOf(subject, decodedLogsAndData[1])

validateOnChainProperties(subject, decodedLogsAndData) ==
    Flatten([i \in DOMAIN decodedLogsAndData |->
                onChainErrorsOf(subject, decodedLogsAndData[i])])

(***************************************************************************)
(* The claims the handler is run on                                        *)
(***************************************************************************)
\* an object with the given properties, created in the given order
RECURSIVE ObjOf(_, _)
ObjOf(keys, kids) ==
    IF keys = <<>> THEN EmptyObj
    ELSE LET n == Len(keys)
         IN IF kids[n].t = "undefined"
            THEN ObjOf(SubSeq(keys, 1, n - 1), SubSeq(kids, 1, n - 1))
            ELSE ObjSet(ObjOf(SubSeq(keys, 1, n - 1), SubSeq(kids, 1, n - 1)),
                        keys[n], kids[n])

\* the data nodes claims are made of; the first is written with its
\* properties out of order
NodePool ==
    {ObjOf(<<"tx", "proof", "layer2Hash", "attester">>,
           <<Str(<<"tx1">>), Str(<<"ok">>), Str(<<"h1">>), Str(<<"at1">>)>>),
     ObjOf(<<"attester", "layer2Hash", "proof", "tx">>,
           <<Str(<<"at2">>), Str(<<"h2">>), Str(<<"ok">>), Str(<<"tx2">>)>>),
     \* no TraitAttested event of tx2 commits h1
     ObjOf(<<"layer2Hash", "attester", "tx", "proof">>,
           <<Str(<<"h1">>), Str(<<"at1">>), Str(<<"tx2">>), Str(<<"ok">>)>>),
     \* the event of tx1 names another attester
     ObjOf(<<"attester", "layer2Hash", "proof", "tx">>,
           <<Str(<<"at2">>), Str(<<"h1">>), Str(<<"ok">>), Str(<<"tx1">>)>>),
     \* the first matching event of tx3 names another subject and attester
     ObjOf(<<"attester", "layer2Hash", "proof", "tx">>,
           <<Str(<<"at1">>), Str(<<"h3">>), Str(<<"ok">>), Str(<<"tx3">>)>>),
     \* payloads the external check refuses
     ObjOf(<<"attester", "layer2Hash", "proof", "tx">>,
           <<Str(<<"at1">>), Str(<<"h1">>), Str(<<"bad">>), Str(<<"tx1">>)>>),
     ObjOf(<<"proof", "attester", "layer2Hash", "tx">>,
           <<Str(<<"worse">>), Str(<<"at2">>), Str(<<"h2">>), Str(<<"tx2">>)>>)}

DataChoices ==
    {Str(<<"x">>)}
    \cup UNION {{Arr(d) : d \in SeqsOfLen(NodePool, n)} : n \in 0..MaxNodes}

TokenChoices == {Str(<<"tok">>), Str(<<" ", " ">>), Num(<<"7">>)}
SubjectChoices == {Str(<<"0xA">>), Str(<<"0xB">>), Str(<<>>)}

\* what the signer of a claim does: every data node canonicalized, then
\* { data, token } hashed
SignerData(data) ==
    IF data.t = "arr"
    THEN Arr([i \in DOMAIN data.kids |-> sortObject(data.kids[i])])
    ELSE data
HonestPackedData(data, token) == recoveredPackedData(SignerData(data), token)
\* the packedData of the same data shared under another token
StalePackedData(data) == HonestPackedData(data, Str(<<"other">>))

PackedDataChoices(data, token) ==
    {Str(HonestPackedData(data, token)),
     Str(<<"0x">> \o UpperHex(Tail(HonestPackedData(data, token)))),
     Str(StalePackedData(data)),
     Undefined}

SignatureChoices(data, token) ==
    {Str(Sign("keyA", toBuffer(HonestPackedData(data, token)))),
     Str(Sign("keyB", toBuffer(HonestPackedData(data, token)))),
     Str(Sign("keyA", toBuffer(StalePackedData(data)))),
     Str(<<" ">>)}

\* req.body, as express.json() parsed it
Body(token, subject, data, packedData, signature) ==
    ObjOf(<<"token", "subject", "data", "packedData", "signature">>,
          <<token, subject, data, packedData, signature>>)

(***************************************************************************)
(* The /api/receive handler                                                *)
(***************************************************************************)
NoResponse == [status |-> 0, json |-> [sent |-> FALSE]]
\* the answer cut down to the first error
RejectedFirstErrorOnly(errors) == [status |-> 400, json |-> [errors |-> <<Head(errors)>>]]
\* res.status(400).json({ errors })
Rejected(errors) == [status |-> 400, json |-> [errors |-> errors]]
\* res.status(200).json({ success: true, token: req.body.token })
Accepted(token) == [status |-> 200, json |-> [success |-> TRUE, token |-> token]]

DataNodes == Get(shareKitResData, "data").kids

\* the handler, sortObject and validateOnChainProperties at rest
PipeIdle ==
    /\ pc = "idle" /\ body = Null /\ shareKitResData = Null
    /\ reqFormatValidation = <<>> /\ basicOffChainValidation = <<>>
    /\ offChainValidation = <<>> /\ onChainValidation = <<>>
    /\ evaluated = <<>> /\ fetch = <<>> /\ decodedDataAndLogs = <<>>
    /\ response = NoResponse
SortIdle ==
    /\ tree = Null /\ sorted = Null /\ sortPc = "idle"
    /\ twin = Null /\ sortedTwin = Null /\ sortedAgain = Null
OcIdle ==
    /\ ocSubject = Null /\ ocEntries = <<>> /\ ocErrors = <<>>
    /\ ocIdx = 0 /\ ocPc = "idle"
RunIdle == runs = <<>> /\ heap = <<>>


Init ==
    /\ \E token \in TokenChoices, subject \in SubjectChoices, data \in DataChoices :
         \E packedData \in PackedDataChoices(data, token),
            signature \in SignatureChoices(data, token) :
              body = Body(token, subject, data, packedData, signature)
    /\ pc = "shape"
    /\ shareKitResData = Null
    /\ reqFormatValidation = <<>>
    /\ basicOffChainValidation = <<>>
    /\ offChainValidation = <<>>
    /\ onChainValidation = <<>>
    /\ evaluated = <<>>
    /\ fetch = <<>>
    /\ decodedDataAndLogs = <<>>
    /\ response = NoResponse
    /\ SortIdle
    /\ OcIdle
    /\ RunIdle

\* index.ts 195-201
ShapeStage ==
    /\ pc = "shape"
    /\ LET errors == validateRequestFormat(body)
       IN /\ reqFormatValidation' = errors
          /\ IF Len(errors) # 0
             THEN response' = Rejected(errors) /\ pc' = "responded"
             ELSE response' = response /\ pc' = "canonicalize"
    /\ evaluated' = Append(evaluated, "shape")
    /\ UNCHANGED <<body, shareKitResData, basicOffChainValidation,
                   offChainValidation, onChainValidation, fetch,
                   decodedDataAndLogs, sortVars, ocVars, runVars>>

\* the claim hashed as received, its data nodes not canonicalized
canonicalizeTopLevelOnly(reqBody) == sortObject(reqBody)

\* index.ts 203-204
canonicalize(reqBody) ==
    LET resData == sortObject(reqBody)
        data == Get(resData, "data")
    IN ObjSet(resData, "data",
              Arr([i \in DOMAIN data.kids |-> sortObject(data.kids[i])]))

Canonicalize ==
    /\ pc = "canonicalize"
    /\ shareKitResData' = canonicalize(body)
    /\ pc' = "offchain"
    /\ UNCHANGED <<body, reqFormatValidation, basicOffChainValidation,
                   offChainValidation, onChainValidation, evaluated, fetch,
                   decodedDataAndLogs, response, sortVars, ocVars, runVars>>

\* the handler going on to the next stage with the errors in hand
OffChainStageUngated ==
    /\ pc = "offchain"
    /\ basicOffChainValidation' = validateBasicOffChainProperties(shareKitResData)
    /\ pc' = "payload"
    /\ evaluated' = Append(evaluated, "offchain")
    /\ UNCHANGED <<body, shareKitResData, reqFormatValidation,
                   offChainValidation, onChainValidation, fetch,
                   decodedDataAndLogs, response, sortVars, ocVars, runVars>>

\* index.ts 206-217
OffChainStage ==
    /\ pc = "offchain"
    /\ LET errors == validateBasicOffChainProperties(shareKitResData)
       IN /\ basicOffChainValidation' = errors
          /\ IF Len(errors) # 0
             THEN response' = Rejected(errors) /\ pc' = "responded"
             ELSE response' = response /\ pc' = "payload"
    /\ evaluated' = Append(evaluated, "offchain")
    /\ UNCHANGED <<body, shareKitResData, reqFormatValidation,
                   offChainValidation, onChainValidation, fetch,
                   decodedDataAndLogs, sortVars, ocVars, runVars>>

\* the entries of the data nodes that have errors, the others left out
offChainValidationOfFailing(resData) ==
    LET data == SelectSeq(Get(resData, "data").kids,
                          LAMBDA d : verifyOffChainDataIntegrity(d) # <<>>)
    IN [i \in DOMAIN data |->
           [layer2Hash |-> Get(data[i], "layer2Hash"),
            errors |-> verifyOffChainDataIntegrity(data[i])]]

\* index.ts 220-223
offChainValidationOf(resData) ==
    LET data == Get(resData, "data").kids
    IN [i \in DOMAIN data |->
           [layer2Hash |-> Get(data[i], "layer2Hash"),
            errors |-> verifyOffChainDataIntegrity(data[i])]]

\* the stage answering 400 and going on to the lookups all the same
PayloadStageNoReturn ==
    /\ pc = "payload"
    /\ LET validation == offChainValidationOf(shareKitResData)
           hasOffChainVerificationErrors ==
               ~(\A i \in DOMAIN validation : Len(validation[i].errors) = 0)
       IN /\ offChainValidation' = validation
          /\ response' = IF hasOffChainVerificationErrors
                         THEN Rejected(validation)
                         ELSE response
    /\ pc' = "launch"
    /\ evaluated' = Append(evaluated, "payload")
    /\ UNCHANGED <<body, shareKitResData, reqFormatValidation,
                   basicOffChainValidation, onChainValidation, fetch,
                   decodedDataAndLogs, sortVars, ocVars, runVars>>

\* index.ts 219-234
PayloadStage ==
    /\ pc = "payload"
    /\ LET validation == offChainValidationOf(shareKitResData)
           hasOffChainVerificationErrors ==
               ~(\A i \in DOMAIN validation : Len(validation[i].errors) = 0)
       IN /\ offChainValidation' = validation
          /\ IF hasOffChainVerificationErrors
             THEN response' = Rejected(validation) /\ pc' = "responded"
             ELSE response' = response /\ pc' = "launch"
    /\ evaluated' = Append(evaluated, "payload")
    /\ UNCHANGED <<body, shareKitResData, reqFormatValidation,
                   basicOffChainValidation, onChainValidation, fetch,
                   decodedDataAndLogs, sortVars, ocVars, runVars>>

\* index.ts 237-248: every callback of the map runs up to its await, which
\* leaves one lookup in flight per data node
LaunchFetches ==
    /\ pc = "launch"
    /\ decodedDataAndLogs' = <<>>
    /\ fetch' = [i \in DOMAIN DataNodes |->
                    [state |-> "pending", tx |-> Get(DataNodes[i], "tx")]]
    /\ evaluated' = Append(evaluated, "fetch")
    /\ pc' = "await"
    /\ UNCHANGED <<body, shareKitResData, reqFormatValidation,
                   basicOffChainValidation, offChainValidation,
                   onChainValidation, response, sortVars, ocVars, runVars>>

\* the logs paired with the data nodes in the order the lookups complete
pushedEntryByArrival(i, logs) ==
    [shareData |-> DataNodes[Len(decodedDataAndLogs) + 1], logs |-> logs]

\* index.ts 243-246: what the callback of data node i pushes once its lookup
\* has resolved with logs
pushedEntry(i, logs) == [shareData |-> DataNodes[i], logs |-> logs]

\* the handler resuming at the first lookup that resolves
FetchResolveRace(i) ==
    /\ pc \in {"await", "failed", "onchain", "responded"}
    /\ fetch[i].state = "pending"
    /\ fetch' = [fetch EXCEPT ![i].state = "resolved"]
    /\ decodedDataAndLogs' =
           Append(decodedDataAndLogs,
                  pushedEntry(i, getDecodedTxEventLogs(fetch[i].tx)))
    /\ pc' = IF pc = "await" THEN "onchain" ELSE pc
    /\ UNCHANGED <<body, shareKitResData, reqFormatValidation,
                   basicOffChainValidation, offChainValidation,
                   onChainValidation, evaluated, response, sortVars, ocVars, runVars>>

\* the lookup of data node i resolves: its callback resumes and pushes; when
\* it was the last one, Promise.all resolves and the handler resumes
FetchResolve(i) ==
    /\ pc \in {"await", "failed"}
    /\ fetch[i].state = "pending"
    /\ fetch' = [fetch EXCEPT ![i].state = "resolved"]
    /\ decodedDataAndLogs' =
           Append(decodedDataAndLogs,
                  pushedEntry(i, getDecodedTxEventLogs(fetch[i].tx)))
    /\ pc' = IF pc = "await" /\ \A j \in DOMAIN fetch : fetch'[j].state = "resolved"
             THEN "onchain"
             ELSE pc
    /\ UNCHANGED <<body, shareKitResData, reqFormatValidation,
                   basicOffChainValidation, offChainValidation,
                   onChainValidation, evaluated, response, sortVars, ocVars, runVars>>

\* the failure of a lookup caught and turned into empty logs
FetchRejectAsNoLogs(i) ==
    /\ pc \in {"await", "failed"}
    /\ fetch[i].state = "pending"
    /\ fetch' = [fetch EXCEPT ![i].state = "rejected"]
    /\ decodedDataAndLogs' = Append(decodedDataAndLogs, pushedEntry(i, <<>>))
    /\ pc' = IF pc = "await" /\ \A j \in DOMAIN fetch : fetch'[j].state # "pending"
             THEN "onchain"
             ELSE pc
    /\ UNCHANGED <<body, shareKitResData, reqFormatValidation,
                   basicOffChainValidation, offChainValidation,
                   onChainValidation, evaluated, response, sortVars, ocVars, runVars>>

\* the lookup of data node i fails: Promise.all rejects, the await throws out
\* of the handler and nothing is sent; the other lookups stay in flight
FetchReject(i) ==
    /\ pc \in {"await", "failed"}
    /\ fetch[i].state = "pending"
    /\ fetch' = [fetch EXCEPT ![i].state = "rejected"]
    /\ pc' = "failed"
    /\ UNCHANGED <<body, shareKitResData, reqFormatValidation,
                   basicOffChainValidation, offChainValidation,
                   onChainValidation, evaluated, decodedDataAndLogs, response,
                   sortVars, ocVars, runVars>>

\* index.ts 249-263
OnChainStage ==
    /\ pc = "onchain"
    /\ LET errors == validateOnChainProperties(Get(shareKitResData, "subject"),
                                               decodedDataAndLogs)
       IN /\ onChainValidation' = errors
          /\ IF Len(errors) # 0
             THEN response' = Rejected(errors)
             ELSE response' = Accepted(Get(body, "token"))
    /\ evaluated' = Append(evaluated, "onchain")
    /\ pc' = "responded"
    /\ UNCHANGED <<body, shareKitResData, reqFormatValidation,
                   basicOffChainValidation, offChainValidation, fetch,
                   decodedDataAndLogs, sortVars, ocVars, runVars>>

Next ==
    \/ ShapeStage
    \/ Canonicalize
    \/ OffChainStage
    \/ PayloadStage
    \/ LaunchFetches
    \/ \E i \in DOMAIN fetch : FetchResolve(i)
    \/ \E i \in DOMAIN fetch : FetchReject(i)
    \/ OnChainStage

Spec == Init /\ [][Next]_vars

\* The same run with what its scheduling guarantees: a call of the handler
\* that can go on does go on (the code between two awaits runs to its end),
\* and every lookup in flight settles, by resolving or by failing.  At each
\* of the positions below exactly one stage of the handler is enabled, no
\* other action is, and the stage moves the handler to another position: so
\* the steps that leave such a position are the steps of the handler.
HandlerPositions == {"shape", "canonicalize", "offchain", "payload", "launch", "onchain"}
HandlerAdvances ==
    /\ pc \in HandlerPositions
    /\ pc' \in (HandlerPositions \cup {"await", "responded"}) \ {pc}
LookupSettles == \E i \in DOMAIN fetch : FetchResolve(i) \/ FetchReject(i)
SpecLive == Init /\ [][Next]_vars /\ WF_pc(HandlerAdvances) /\ WF_vars(LookupSettles)

(***************************************************************************)
(* Specification SpecSort: sortObject applied to every tree of at most     *)
(* MaxSize values, to the same tree with its properties created in another *)
(* order, and to its own result.                                           *)
(***************************************************************************)
\* the two elements at positions i and i + 1 exchanged
Swap(s, i) == [s EXCEPT ![i] = s[i + 1], ![i + 1] = s[i]]

\* the trees that differ from v by the order in which two properties of one
\* mapping, anywhere in v, were created.  Array-index names enumerate first
\* whatever the order of creation, so only other names change places.
RECURSIVE Reorderings(_)
Reorderings(v) ==
    LET inside == UNION {{[v EXCEPT !.kids[i] = e] : e \in Reorderings(v.kids[i])} :
                            i \in DOMAIN v.kids}
        here == IF v.t = "obj"
                THEN {Obj(Swap(v.keys, i), Swap(v.kids, i)) :
                         i \in {j \in 1..(Len(v.keys) - 1) :
                                   ~IsArrayIndex(v.keys[j]) /\ ~IsArrayIndex(v.keys[j + 1])}}
                ELSE {}
    IN here \cup inside

SortInit ==
    /\ tree = EmptyObj
    /\ twin = EmptyObj
    /\ sorted = Null /\ sortedTwin = Null /\ sortedAgain = Null
    /\ sortPc = "input"
    /\ PipeIdle /\ OcIdle /\ RunIdle

\* the input grows by one value
SortGrow ==
    /\ sortPc = "input"
    /\ twin = tree
    /\ Size(tree) < MaxSize
    /\ tree' \in Extensions(tree)
    /\ twin' = tree'
    /\ UNCHANGED <<sorted, sortedTwin, sortedAgain, sortPc, pipeVars, ocVars, runVars>>

\* two properties of a mapping of the twin change places
SortReorder ==
    /\ sortPc = "input"
    /\ twin' \in Reorderings(twin)
    /\ UNCHANGED <<tree, sorted, sortedTwin, sortedAgain, sortPc, pipeVars, ocVars, runVars>>

\* sortObject(tree) and sortObject(twin)
SortCall ==
    /\ sortPc = "input"
    /\ sorted' = sortObject(tree)
    /\ sortedTwin' = sortObject(twin)
    /\ sortPc' = "done"
    /\ UNCHANGED <<tree, twin, sortedAgain, pipeVars, ocVars, runVars>>

\* sortObject(sortObject(tree))
SortAgain ==
    /\ sortPc = "done"
    /\ sortedAgain' = sortObject(sorted)
    /\ sortPc' = "again"
    /\ UNCHANGED <<tree, twin, sorted, sortedTwin, pipeVars, ocVars, runVars>>

SortNext == SortGrow \/ SortReorder \/ SortCall \/ SortAgain
SpecSort == SortInit /\ [][SortNext]_vars

(***************************************************************************)
(* Specification SpecOnChain: validateOnChainProperties applied to every   *)
(* subject and every list of at most MaxNodes entries holding at most      *)
(* MaxLogs decoded events in all.  The forEach loop takes one step per     *)
(* entry.                                                                  *)
(***************************************************************************)
OcSubjects == {Str(<<"0xA">>), Str(<<"0xB">>)}
OcNodes ==
    {ObjOf(<<"attester", "layer2Hash", "tx">>,
           <<Str(<<"at1">>), Str(<<"h1">>), Str(<<"tx1">>)>>),
     ObjOf(<<"attester", "layer2Hash", "tx">>,
           <<Str(<<"at2">>), Str(<<"h2">>), Str(<<"tx2">>)>>)}
OcEvents ==
    {Event("TraitAttested", h, a, at) :
        h \in {<<"h1">>, <<"h2">>}, a \in {<<"0xA">>, <<"0xB">>},
        at \in {<<"at1">>, <<"at2">>}}
    \cup {Event("Transfer", <<"h1">>, <<"0xA">>, <<"at1">>)}

OcEventCount ==
    LET n[i \in 0..Len(ocEntries)] ==
            IF i = 0 THEN 0 ELSE n[i - 1] + Len(ocEntries[i].logs)
    IN n[Len(ocEntries)]

OcInit ==
    /\ ocSubject \in OcSubjects
    /\ ocEntries = <<>>
    /\ ocErrors = <<>>
    /\ ocIdx = 0
    /\ ocPc = "input"
    /\ PipeIdle /\ SortIdle /\ RunIdle

\* one more data node, its logs still empty
OcAddEntry ==
    /\ ocPc = "input"
    /\ Len(ocEntries) < MaxNodes
    /\ \E d \in OcNodes :
           ocEntries' = Append(ocEntries, [shareData |-> d, logs |-> <<>>])
    /\ UNCHANGED <<ocSubject, ocErrors, ocIdx, ocPc, pipeVars, sortVars, runVars>>

\* one more decoded event in the logs of the last data node
OcAddLog ==
    /\ ocPc = "input"
    /\ ocEntries # <<>>
    /\ OcEventCount < MaxLogs
    /\ \E l \in OcEvents :
           ocEntries' = [ocEntries EXCEPT ![Len(ocEntries)].logs = Append(@, l)]
    /\ UNCHANGED <<ocSubject, ocErrors, ocIdx, ocPc, pipeVars, sortVars, runVars>>

\* validateOnChainProperties(subject, decodedLogsAndData) is called
OcCall ==
    /\ ocPc = "input"
    /\ ocErrors' = <<>>
    /\ ocIdx' = 1
    /\ ocPc' = IF ocEntries = <<>> THEN "done" ELSE "forEach"
    /\ UNCHANGED <<ocSubject, ocEntries, pipeVars, sortVars, runVars>>

\* the loop left at the first entry that has errors
OcEachUntilError ==
    /\ ocPc = "forEach"
    /\ ocErrors' = ocErrors \o onChainErrorsOf(ocSubject, ocEntries[ocIdx])
    /\ ocIdx' = ocIdx + 1
    /\ ocPc' = IF ocIdx = Len(ocEntries) \/ ocErrors' # <<>> THEN "done" ELSE "forEach"
    /\ UNCHANGED <<ocSubject, ocEntries, pipeVars, sortVars, runVars>>

\* the forEach callback runs on the next entry
OcEach ==
    /\ ocPc = "forEach"
    /\ ocErrors' = ocErrors \o onChainErrorsOf(ocSubject, ocEntries[ocIdx])
    /\ ocIdx' = ocIdx + 1
    /\ ocPc' = IF ocIdx = Len(ocEntries) THEN "done" ELSE "forEach"
    /\ UNCHANGED <<ocSubject, ocEntries, pipeVars, sortVars, runVars>>

OcNext == OcAddEntry \/ OcAddLog \/ OcCall \/ OcEach
SpecOnChain == OcInit /\ [][OcNext]_vars

(***************************************************************************)
(* Specification SpecTwoRuns: two requests handled by one process.  A call *)
(* of the handler runs without interruption from its start to its first    *)
(* await (index.ts 195-248) and from the resolution of Promise.all to its  *)
(* end (249-263); the steps of the other call, and the settling of the     *)
(* lookups of both, come in between.  decodedDataAndLogs is an array each   *)
(* call allocates (237-240): the heap holds the arrays, a call holds a      *)
(* reference.                                                              *)
(***************************************************************************)
Runs == {1, 2}

\* the claims of the two requests, signed by key A over the honest
\* packedData: those made in the name of its address, of every list of data
\* nodes, and one made in the name of another address.  The data nodes are
\* one whose transaction commits its hash and one whose transaction does not.
RunNodes ==
    {ObjOf(<<"tx", "proof", "layer2Hash", "attester">>,
           <<Str(<<"tx1">>), Str(<<"ok">>), Str(<<"h1">>), Str(<<"at1">>)>>),
     ObjOf(<<"layer2Hash", "attester", "tx", "proof">>,
           <<Str(<<"h1">>), Str(<<"at1">>), Str(<<"tx2">>), Str(<<"ok">>)>>)}
RunBody(subject, d) ==
    Body(Str(<<"tok">>), subject, Arr(d),
         Str(HonestPackedData(Arr(d), Str(<<"tok">>))),
         Str(Sign("keyA", toBuffer(HonestPackedData(Arr(d), Str(<<"tok">>))))))
RunBodies ==
    {RunBody(Str(<<"0xA">>), d) : d \in UNION {SeqsOfLen(RunNodes, n) : n \in 1..MaxNodes}}
    \cup {RunBody(Str(<<"0xB">>), d) : d \in SeqsOfLen(RunNodes, 1)}

\* index.ts 195-234: what the handler sends before it reaches the fan-out,
\* NoResponse when it reaches it
verdictBeforeFanOut(reqBody) ==
    LET reqFormat == validateRequestFormat(reqBody)
    IN IF Len(reqFormat) # 0 THEN Rejected(reqFormat)
       ELSE LET resData == canonicalize(reqBody)
                basicOffChain == validateBasicOffChainProperties(resData)
            IN IF Len(basicOffChain) # 0 THEN Rejected(basicOffChain)
               ELSE LET offChain == offChainValidationOf(resData)
                    IN IF ~(\A i \in DOMAIN offChain : Len(offChain[i].errors) = 0)
                       THEN Rejected(offChain)
                       ELSE NoResponse

\* the array every call pushes into, were it one array of the module
sharedArrayRef(h) == 1

\* index.ts 237-240: const decodedDataAndLogs = [] allocates an array
newArrayRef(h) == Len(h) + 1

RunInit ==
    /\ runs \in [Runs -> {[pc |-> "start", body |-> b, shareKitResData |-> Null,
                           fetch |-> <<>>, arrived |-> <<>>,
                           decodedDataAndLogs |-> 0, response |-> NoResponse] :
                             b \in RunBodies}]
    /\ heap = <<>>
    /\ PipeIdle /\ SortIdle /\ OcIdle

\* index.ts 195-248: the call runs up to its first await, or to the return
\* of a stage that has errors
RunStart(r) ==
    /\ runs[r].pc = "start"
    /\ LET verdict == verdictBeforeFanOut(runs[r].body)
           resData == canonicalize(runs[r].body)
           data == Get(resData, "data").kids
           ref == newArrayRef(heap)
       IN IF verdict # NoResponse
          THEN /\ runs' = [runs EXCEPT ![r].pc = "responded", ![r].response = verdict]
               /\ heap' = heap
          ELSE /\ runs' = [runs EXCEPT
                              ![r].pc = "await",
                              ![r].shareKitResData = resData,
                              ![r].decodedDataAndLogs = ref,
                              ![r].fetch = [i \in DOMAIN data |->
                                               [state |-> "pending",
                                                tx |-> Get(data[i], "tx")]]]
               /\ heap' = IF ref \in DOMAIN heap THEN heap ELSE Append(heap, <<>>)
    /\ UNCHANGED <<pipeVars, sortVars, ocVars>>

\* index.ts 243-246: the lookup of data node i of call r resolves and its
\* callback pushes; with the last one Promise.all resolves
RunFetchResolve(r, i) ==
    /\ runs[r].pc \in {"await", "failed"}
    /\ runs[r].fetch[i].state = "pending"
    /\ LET data == Get(runs[r].shareKitResData, "data").kids
           entry == [shareData |-> data[i],
                     logs |-> getDecodedTxEventLogs(runs[r].fetch[i].tx)]
           done == \A j \in DOMAIN runs[r].fetch :
                       j # i => runs[r].fetch[j].state = "resolved"
       IN /\ heap' = [heap EXCEPT ![runs[r].decodedDataAndLogs] = Append(@, entry)]
          /\ runs' = [runs EXCEPT
                         ![r].fetch[i].state = "resolved",
                         ![r].arrived = Append(@, i),
                         ![r].pc = IF @ = "await" /\ done THEN "onchain" ELSE @]
    /\ UNCHANGED <<pipeVars, sortVars, ocVars>>

\* the lookup of data node i of call r fails: the call ends with nothing sent
RunFetchReject(r, i) ==
    /\ runs[r].pc \in {"await", "failed"}
    /\ runs[r].fetch[i].state = "pending"
    /\ runs' = [runs EXCEPT ![r].fetch[i].state = "rejected", ![r].pc = "failed"]
    /\ UNCHANGED <<heap, pipeVars, sortVars, ocVars>>

\* index.ts 249-263
RunOnChain(r) ==
    /\ runs[r].pc = "onchain"
    /\ LET errors == validateOnChainProperties(
                         Get(runs[r].shareKitResData, "subject"),
                         heap[runs[r].decodedDataAndLogs])
       IN runs' = [runs EXCEPT
                      ![r].pc = "responded",
                      ![r].response = IF Len(errors) # 0
                                      THEN Rejected(errors)
                                      ELSE Accepted(Get(runs[r].body, "token"))]
    /\ UNCHANGED <<heap, pipeVars, sortVars, ocVars>>

RunNext ==
    \/ \E r \in Runs : RunStart(r)
    \/ \E r \in Runs : \E i \in DOMAIN runs[r].fetch : RunFetchResolve(r, i)
    \/ \E r \in Runs : \E i \in DOMAIN runs[r].fetch : RunFetchReject(r, i)
    \/ \E r \in Runs : RunOnChain(r)

SpecTwoRuns == RunInit /\ [][RunNext]_vars

(***************************************************************************)
(* Vocabulary of the claims about the handler                              *)
(***************************************************************************)
Keys(errors) == [i \in DOMAIN errors |-> errors[i].key]
IsPrefix(s, t) == Len(s) <= Len(t) /\ SubSeq(t, 1, Len(s)) = s
Last(s) == s[Len(s)]
WasEvaluated(stage) == stage \in Range(evaluated)

\* the error sequence a stage yielded is non-empty
ShapeFailed == reqFormatValidation # <<>>
IntegrityFailed == basicOffChainValidation # <<>>
PayloadFailed == \E i \in DOMAIN offChainValidation : offChainValidation[i].errors # <<>>
OnChainFailed == onChainValidation # <<>>

StageOrder == <<"shape", "offchain", "payload", "fetch", "onchain">>

\* C1: the stages are evaluated in the order shape, off-chain integrity,
\* per-node payload, (log lookups,) on-chain; a stage is evaluated only when
\* every earlier stage yielded no error, so the lookups are launched only after
\* three clean stages; and once a stage has yielded errors the run has ended
\* with a rejected verdict.
C1_StrictStageGating ==
    /\ IsPrefix(evaluated, StageOrder)
    /\ WasEvaluated("offchain") => ~ShapeFailed
    /\ WasEvaluated("payload") => ~ShapeFailed /\ ~IntegrityFailed
    /\ (WasEvaluated("fetch") \/ fetch # <<>>) =>
           /\ ~ShapeFailed /\ ~IntegrityFailed /\ ~PayloadFailed
           /\ IsPrefix(<<"shape", "offchain", "payload">>, evaluated)
    /\ WasEvaluated("onchain") => ~ShapeFailed /\ ~IntegrityFailed /\ ~PayloadFailed
    /\ (ShapeFailed \/ IntegrityFailed \/ PayloadFailed \/ OnChainFailed) =>
           pc = "responded" /\ response.status = 400

\* a run rejected by the off-chain integrity stage, with nothing evaluated after
C1_Witness ==
    /\ evaluated = <<"shape", "offchain">>
    /\ IntegrityFailed
    /\ pc = "responded"
    /\ response.status = 400
    /\ fetch = <<>>

(***************************************************************************)
(* What makes a claim valid, said of req.body                              *)
(***************************************************************************)
ClaimData == IF Get(body, "data").t = "arr" THEN Get(body, "data").kids ELSE <<>>

\* subject is the address recovered from (packedData, signature)
SubjectIsRecoveredSigner ==
    /\ Get(body, "packedData").t = "str"
    /\ Get(body, "signature").t = "str"
    /\ Get(body, "subject") =
           Str(recoverHashSigner(toBuffer(Get(body, "packedData").s),
                                 Get(body, "signature").s))

\* packedData is "0x" + contentHash of the canonicalized { data, token }
PackedDataIsContentHash ==
    Get(body, "packedData") =
        Str(HonestPackedData(Get(body, "data"), Get(body, "token")))

\* the first TraitAttested event of the logs that commits the hash, if any
CommittingEvents(logs, hash) ==
    {i \in DOMAIN logs : logs[i].name = "TraitAttested" /\ logs[i].values.dataHash = hash}
HasCommittingEvent(logs, hash) == CommittingEvents(logs, hash) # {}
FirstCommittingEvent(logs, hash) ==
    logs[CHOOSE i \in CommittingEvents(logs, hash) :
             \A j \in CommittingEvents(logs, hash) : i <= j]

\* the logs of the node's transaction commit its layer2Hash, for the claimed
\* subject and by the node's attester
NodeMatchesLedger(d, subject) ==
    LET logs == Ledger[Get(d, "tx").s[1]]
        hash == Get(d, "layer2Hash").s
    IN /\ HasCommittingEvent(logs, hash)
       /\ FirstCommittingEvent(logs, hash).values.subject = subject.s
       /\ FirstCommittingEvent(logs, hash).values.attester = Get(d, "attester").s

OnChainLogsAllMatch ==
    \A i \in DOMAIN ClaimData : NodeMatchesLedger(ClaimData[i], Get(body, "subject"))

\* the five fields have the shape of a claim
WellFormed ==
    /\ \A k \in {"token", "subject", "packedData", "signature"} :
           Get(body, k).t = "str" /\ trim(Get(body, k).s) # <<>>
    /\ Get(body, "data").t = "arr" /\ ClaimData # <<>>

\* the external payload check finds nothing in any data node
PayloadsPass ==
    \A i \in DOMAIN ClaimData : Get(ClaimData[i], "proof") = Str(<<"ok">>)

NoLookupRejected == \A i \in DOMAIN fetch : fetch[i].state # "rejected"

\* C2, as stated: a claim whose subject is the recovered signer, whose
\* packedData is the content hash of the canonicalized { data, token } and
\* whose on-chain logs all match is answered accepted, with its token.  (Read
\* in the claim's favour: the claim has the shape of a claim, and the run got
\* as far as answering.)
C2_ValidClaimPasses_AsStated ==
    (/\ pc = "responded"
     /\ WellFormed
     /\ SubjectIsRecoveredSigner /\ PackedDataIsContentHash /\ OnChainLogsAllMatch)
        => response = Accepted(Get(body, "token"))

\* C2, amended: such a claim is accepted, with its token, when it also has
\* the shape of a claim and the external payload check passes for every data
\* node; it is never rejected, and the only other way its run ends is a
\* failed log lookup.
C2_ValidClaimPasses ==
    (/\ WellFormed /\ PayloadsPass
     /\ SubjectIsRecoveredSigner /\ PackedDataIsContentHash /\ OnChainLogsAllMatch)
        => /\ response.status # 400
           /\ pc = "responded" => response = Accepted(Get(body, "token"))
           /\ pc = "failed" => ~NoLookupRejected

\* a valid claim of two data nodes, one of them written with its properties
\* out of order, accepted
C2_Witness ==
    /\ WellFormed /\ PayloadsPass
    /\ SubjectIsRecoveredSigner /\ PackedDataIsContentHash /\ OnChainLogsAllMatch
    /\ Len(ClaimData) = 2
    /\ canonicalize(body) # body
    /\ pc = "responded"
    /\ response = Accepted(Str(<<"tok">>))

(***************************************************************************)
(* Tampering with a valid claim                                            *)
(***************************************************************************)
HonestPackedDataOfClaim == HonestPackedData(Get(body, "data"), Get(body, "token"))

\* the subject signed the honest packedData
SubjectSignedHonestPackedData ==
    /\ Get(body, "signature").t = "str"
    /\ Get(body, "subject") =
           Str(recoverHashSigner(toBuffer(HonestPackedDataOfClaim),
                                 Get(body, "signature").s))

\* valid in everything but packedData, which is another string
TamperedPackedData ==
    /\ WellFormed /\ PayloadsPass /\ OnChainLogsAllMatch
    /\ SubjectSignedHonestPackedData
    /\ Get(body, "packedData") # Str(HonestPackedDataOfClaim)

HaltedBeforeOnChain ==
    /\ fetch = <<>>
    /\ ~WasEvaluated("fetch") /\ ~WasEvaluated("onchain")
    /\ WasEvaluated("offchain") =>
           pc = "responded" /\ response = Rejected(basicOffChainValidation)

\* C3, as stated: with packedData tampered, the off-chain integrity stage
\* yields exactly one error, keyed packedData, and the run halts before the
\* on-chain stage.
C3_TamperedPackedData_AsStated ==
    TamperedPackedData =>
        /\ HaltedBeforeOnChain
        /\ WasEvaluated("offchain") => Keys(basicOffChainValidation) = <<"packedData">>

\* C3, amended: the stage yields exactly one error keyed packedData; it is the
\* only error when the tampered packedData still decodes to the bytes that
\* were signed, and otherwise one error keyed subject comes before it, the
\* signer being recovered from the tampered packedData.  The run halts before
\* the per-node payload stage and the on-chain stage.
C3_TamperedPackedData ==
    TamperedPackedData =>
        /\ HaltedBeforeOnChain
        /\ ~WasEvaluated("payload")
        /\ WasEvaluated("offchain") =>
               Keys(basicOffChainValidation) =
                   IF toBuffer(Get(body, "packedData").s)
                          = toBuffer(HonestPackedDataOfClaim)
                   THEN <<"packedData">>
                   ELSE <<"subject", "packedData">>

\* a tampered claim answered with the two errors
C3_Witness ==
    /\ TamperedPackedData
    /\ pc = "responded"
    /\ Keys(response.json.errors) = <<"subject", "packedData">>

\* signed by one key over the honest packedData, the subject being the
\* address of another key
WrongSubject ==
    /\ WellFormed
    /\ PackedDataIsContentHash
    /\ \E key \in SigningKeys :
          /\ Get(body, "signature").s = Sign(key, toBuffer(Get(body, "packedData").s))
          /\ Get(body, "subject").s # AddressOf(key)

\* C4: signed with key A while the subject is address B, the packedData being
\* the right hash: the off-chain integrity stage yields exactly one error,
\* keyed subject (its message naming the claimed and the recovered address),
\* and the run is rejected with it.
C4_WrongSubject ==
    (WrongSubject /\ WasEvaluated("offchain")) =>
        /\ Keys(basicOffChainValidation) = <<"subject">>
        /\ Get(body, "subject").s \in Range(basicOffChainValidation[1].message)
        /\ \E key \in SigningKeys :
               /\ AddressOf(key) # Get(body, "subject").s
               /\ AddressOf(key) \in Range(basicOffChainValidation[1].message)
        /\ response = Rejected(basicOffChainValidation)

C4_Witness ==
    /\ WrongSubject
    /\ PayloadsPass
    /\ pc = "responded"
    /\ Keys(response.json.errors) = <<"subject">>

(***************************************************************************)
(* The fan-out of log lookups                                              *)
(***************************************************************************)
SomeLookupRejected == \E i \in DOMAIN fetch : fetch[i].state = "rejected"

\* C5: once a log lookup has failed the run has ended in an internal failure:
\* nothing is sent, neither a rejected verdict nor an accepted one, and the
\* on-chain cross-validation is never run on the logs that did arrive.
C5_InfrastructureFailureIsolation ==
    SomeLookupRejected =>
        /\ pc = "failed"
        /\ response = NoResponse
        /\ ~WasEvaluated("onchain")
        /\ onChainValidation = <<>>

\* one lookup failed after another had already delivered its logs
C5_Witness ==
    /\ SomeLookupRejected
    /\ decodedDataAndLogs # <<>>
    /\ pc = "failed"

\* C6: every entry handed to the on-chain cross-validator pairs a data node
\* with the logs of that node's own transaction, and when the handler resumes
\* there is exactly one entry per data node.
C6_FanOutAssociation ==
    /\ \A k \in DOMAIN decodedDataAndLogs :
          /\ decodedDataAndLogs[k].shareData \in Range(DataNodes)
          /\ decodedDataAndLogs[k].logs =
                 Ledger[Get(decodedDataAndLogs[k].shareData, "tx").s[1]]
    /\ (pc = "onchain" \/ WasEvaluated("onchain")) =>
          /\ Len(decodedDataAndLogs) = Len(DataNodes)
          /\ \A i \in DOMAIN DataNodes :
                 Cardinality({k \in DOMAIN decodedDataAndLogs :
                                 decodedDataAndLogs[k].shareData = DataNodes[i]})
                     = Cardinality({j \in DOMAIN DataNodes : DataNodes[j] = DataNodes[i]})

\* two nodes of distinct transactions whose lookups completed out of order
C6_Witness ==
    /\ pc = "onchain"
    /\ Len(DataNodes) = 2
    /\ Get(DataNodes[1], "tx") # Get(DataNodes[2], "tx")
    /\ decodedDataAndLogs[1].shareData = DataNodes[2]
    /\ decodedDataAndLogs[2].shareData = DataNodes[1]
    /\ decodedDataAndLogs[1].logs # decodedDataAndLogs[2].logs

(***************************************************************************)
(* The rejected verdict                                                    *)
(***************************************************************************)
\* the result of a stage
ResultOf(stage) ==
    CASE stage = "shape" -> reqFormatValidation
      [] stage = "offchain" -> basicOffChainValidation
      [] stage = "payload" -> offChainValidation
      [] stage = "onchain" -> onChainValidation

\* C9: a rejected verdict carries the whole result of the stage that failed,
\* which is the last stage evaluated, and every other stage either passed or
\* was not evaluated: shape errors are those of validateRequestFormat on the
\* body, integrity errors those of the off-chain validator on the
\* canonicalized claim, payload entries one per data node, on-chain errors
\* those of the cross-validator on the collected logs.
C9_RejectedCarriesWholeStage ==
    response.status = 400 =>
        /\ evaluated # <<>>
        /\ response.json.errors = ResultOf(Last(evaluated))
        /\ response.json.errors # <<>>
        /\ CASE Last(evaluated) = "shape" ->
                   /\ Keys(response.json.errors)
                          = SelectSeq(<<"token", "subject", "data", "packedData", "signature">>,
                               LAMBDA k : IF k = "data"
                                          THEN Get(body, k).t # "arr" \/ Get(body, k).kids = <<>>
                                          ELSE Get(body, k).t # "str" \/ trim(Get(body, k).s) = <<>>)
                   /\ ~IntegrityFailed /\ ~PayloadFailed /\ ~OnChainFailed
             [] Last(evaluated) = "offchain" ->
                   /\ Keys(response.json.errors)
                          = SelectSeq(<<"subject", "packedData">>,
                               LAMBDA k : IF k = "subject" THEN ~SubjectIsRecoveredSigner
                                          ELSE ~PackedDataIsContentHash)
                   /\ ~ShapeFailed /\ ~PayloadFailed /\ ~OnChainFailed
             [] Last(evaluated) = "payload" ->
                   /\ Len(response.json.errors) = Len(ClaimData)
                   /\ \A i \in DOMAIN ClaimData :
                          /\ response.json.errors[i].layer2Hash = Get(ClaimData[i], "layer2Hash")
                          /\ response.json.errors[i].errors
                                 = verifyOffChainDataIntegrity(ClaimData[i])
                   /\ PayloadFailed
                   /\ ~ShapeFailed /\ ~IntegrityFailed /\ ~OnChainFailed
             [] Last(evaluated) = "onchain" ->
                   /\ Len(response.json.errors)
                          >= Cardinality({k \in DOMAIN decodedDataAndLogs :
                                 ~NodeMatchesLedger(decodedDataAndLogs[k].shareData,
                                                    Get(body, "subject"))})
                   /\ ~ShapeFailed /\ ~IntegrityFailed /\ ~PayloadFailed
             [] OTHER -> FALSE

\* a verdict rejected by the on-chain stage with more than one error
C9_Witness ==
    /\ response.status = 400
    /\ Last(evaluated) = "onchain"
    /\ Len(response.json.errors) >= 2

(***************************************************************************)
(* Claims about validateOnChainProperties (specification SpecOnChain)      *)
(***************************************************************************)
\* the entry the forEach callback is about to run on
OcCurrent == ocEntries[ocIdx]
OcCurrentHash == Get(OcCurrent.shareData, "layer2Hash").s
\* the callback pushed exactly the error e
OcPushedExactly(key, named) ==
    /\ Len(ocErrors') = Len(ocErrors) + 1
    /\ SubSeq(ocErrors', 1, Len(ocErrors)) = ocErrors
    /\ Last(ocErrors').key = key
    /\ \A v \in named : v \in Range(Last(ocErrors').message)

\* C7: for a data node whose logs hold no TraitAttested event committing its
\* layer2Hash, the cross-validator pushes exactly one error, keyed
\* TraitAttested and naming the hash, and no subject or attester error.
C7_MissingOnChainEvent ==
    [][(/\ ocPc = "forEach"
        /\ ~HasCommittingEvent(OcCurrent.logs, OcCurrentHash))
           => OcPushedExactly("TraitAttested", {OcCurrentHash})]_vars

\* the second of two nodes had logs, none of them committing its hash, and
\* the validator has returned
C7_Witness ==
    /\ ocPc = "done"
    /\ Len(ocEntries) = 2
    /\ ocEntries[2].logs # <<>>
    /\ ~HasCommittingEvent(ocEntries[2].logs, Get(ocEntries[2].shareData, "layer2Hash").s)
    /\ ocErrors # <<>>
    /\ Last(ocErrors).key = "TraitAttested"

\* C8: for a data node whose matching event (the first TraitAttested event
\* committing its layer2Hash) names the claimed subject and another attester
\* than the node's, the cross-validator pushes exactly one error, keyed
\* attester and naming both attesters, and no subject error.
C8_AttesterMismatch ==
    [][(/\ ocPc = "forEach"
        /\ HasCommittingEvent(OcCurrent.logs, OcCurrentHash)
        /\ FirstCommittingEvent(OcCurrent.logs, OcCurrentHash).values.subject
               = ocSubject.s
        /\ FirstCommittingEvent(OcCurrent.logs, OcCurrentHash).values.attester
               # Get(OcCurrent.shareData, "attester").s)
           => OcPushedExactly("attester",
                  {Get(OcCurrent.shareData, "attester").s,
                   FirstCommittingEvent(OcCurrent.logs, OcCurrentHash).values.attester})]_vars

\* a node whose logs hold an unrelated TraitAttested event and then the
\* matching one, which names another attester; the validator has returned
C8_Witness ==
    /\ ocPc = "done"
    /\ Len(ocEntries) = 1
    /\ Len(ocEntries[1].logs) = 2
    /\ ocEntries[1].logs[1].name = "TraitAttested"
    /\ CommittingEvents(ocEntries[1].logs, Get(ocEntries[1].shareData, "layer2Hash").s) = {2}
    /\ ocEntries[1].logs[2].values.subject = ocSubject.s
    /\ ocEntries[1].logs[2].values.attester # Get(ocEntries[1].shareData, "attester").s
    /\ Keys(ocErrors) = <<"attester">>

(***************************************************************************)
(* Claims about sortObject (specification SpecSort)                        *)
(***************************************************************************)
IsAscending(keys) == \A i, j \in DOMAIN keys : i < j => KeyLess(keys[i], keys[j])

\* the order an object gives its keys when they are created in ascending
\* order: its array indices first, then the other names, ascending
IsCanonicalOrder(keys) ==
    \A i, j \in DOMAIN keys :
        i < j => \/ IsArrayIndex(keys[i]) /\ ~IsArrayIndex(keys[j])
                 \/ /\ IsArrayIndex(keys[i]) = IsArrayIndex(keys[j])
                    /\ KeyLess(keys[i], keys[j])

\* every object of the value, at every level and inside arrays too, has its
\* keys in order
RECURSIVE SortedEverywhere(_)
SortedEverywhere(v) ==
    /\ v.t = "obj" => IsCanonicalOrder(v.keys)
    /\ \A i \in DOMAIN v.kids : SortedEverywhere(v.kids[i])

\* C10, as stated: the result of sortObject has the keys of every mapping at
\* every nesting level in ascending lexicographic order, mappings that are
\* elements of arrays included.  (Read in the claim's favour: the place an
\* object gives its array-index keys, before the others, is not held against
\* it.)
C10_KeyOrdering_AsStated == sortPc \in {"done", "again"} => SortedEverywhere(sorted)

\* out is in with the keys of its objects in order, as far as objects nest in
\* objects; its arrays are those of in, as they were
RECURSIVE SortedThroughObjects(_, _)
SortedThroughObjects(in, out) ==
    /\ out.t = "obj"
    /\ Range(out.keys) = Range(lodashKeys(in))
    /\ Len(out.keys) = Len(lodashKeys(in))
    /\ IsCanonicalOrder(out.keys)
    /\ \A k \in Range(out.keys) :
          CASE Get(in, k).t = "obj" -> SortedThroughObjects(Get(in, k), Get(out, k))
            [] Get(in, k).t = "arr" -> Get(out, k) = Get(in, k)
            [] OTHER -> TRUE

\* C10, amended: in the result of sortObject every mapping reached from the
\* root through mappings alone has its keys that are not array indices in
\* ascending lexicographic order, after its array-index keys; an array is
\* returned as it is, the mappings inside it not canonicalized.
C10_KeyOrdering == sortPc \in {"done", "again"} => SortedThroughObjects(tree, sorted)

\* a mapping nested in a mapping had its keys out of order and is returned
\* with them in order
C10_Witness ==
    /\ sortPc = "done"
    /\ \E k \in Range(tree.keys) :
          /\ Get(tree, k).t = "obj"
          /\ Len(Get(tree, k).keys) = 2
          /\ ~IsAscending(Get(tree, k).keys)
          /\ IsAscending(Get(sorted, k).keys)

\* out has the content of in: the same keys in every mapping, the same
\* elements in the same order in every array, the same scalar at every leaf
RECURSIVE ContentPreserved(_, _)
ContentPreserved(in, out) ==
    CASE in.t = "obj" ->
            /\ out.t = "obj"
            /\ Range(out.keys) = Range(in.keys)
            /\ Len(out.keys) = Len(in.keys)
            /\ \A k \in Range(in.keys) : ContentPreserved(Get(in, k), Get(out, k))
      [] in.t = "arr" ->
            /\ out.t = "arr"
            /\ Len(out.kids) = Len(in.kids)
            /\ \A i \in DOMAIN in.kids : ContentPreserved(in.kids[i], out.kids[i])
      [] OTHER -> out = in

\* C11, as stated: sortObject returns a tree with the same set of keys in
\* every mapping, every scalar leaf (null included) unchanged, and every array
\* with the same length and the same element order as in the input.
C11_ContentPreservation_AsStated == sortPc \in {"done", "again"} => ContentPreserved(tree, sorted)

\* a property holding null comes back holding an empty mapping
C11_Witness ==
    /\ sortPc = "done"
    /\ Get(tree, "a") = Null
    /\ Get(sorted, "a") = EmptyObj

\* C12: sortObject applied to its own result returns that result:
\* sortObject(sortObject(T)) = sortObject(T), for every tree T.
C12_Idempotence == sortPc = "again" => sortedAgain = sorted

\* a tree that sortObject changed, in the order of its keys and in a null
\* leaf, and whose result the second application left as it was
C12_Witness ==
    /\ sortPc = "again"
    /\ sorted # tree
    /\ ~IsAscending(SelectSeq(tree.keys, LAMBDA k : ~IsArrayIndex(k)))
    /\ \E k \in Range(tree.keys) : Get(tree, k) = Null
    /\ \E k \in Range(tree.keys) : Get(tree, k).t = "arr"
    /\ sortedAgain = sorted

\* b is a with the properties of its mappings created in any order, the
\* mappings being those reached from the root through mappings alone; arrays
\* and scalars are the same in both
RECURSIVE SameUpToOrderThroughObjects(_, _)
SameUpToOrderThroughObjects(a, b) ==
    IF a.t = "obj"
    THEN /\ b.t = "obj"
         /\ Range(a.keys) = Range(b.keys)
         /\ \A k \in Range(a.keys) : SameUpToOrderThroughObjects(Get(a, k), Get(b, k))
    ELSE a = b

\* the content hash of the serialized value
contentHash(v) == keccak256(stringify(v))

\* C13, as stated: two trees that hold the same key/value pairs, created in
\* different orders at any nesting level, have the same serialized output
\* after sortObject, and so the same content hash.
C13_OrderInvariance_AsStated ==
    sortPc \in {"done", "again"} =>
        /\ stringify(sorted) = stringify(sortedTwin)
        /\ contentHash(sorted) = contentHash(sortedTwin)

\* C13, amended: two trees that hold the same key/value pairs, created in
\* different orders in mappings reached from the root through mappings alone,
\* have the same serialized output after sortObject, and so the same content
\* hash; the order of creation inside a mapping that sits in an array is kept
\* by sortObject and shows in the output.
C13_OrderInvariance ==
    (sortPc \in {"done", "again"} /\ SameUpToOrderThroughObjects(tree, twin)) =>
        /\ sorted = sortedTwin
        /\ stringify(sorted) = stringify(sortedTwin)
        /\ contentHash(sorted) = contentHash(sortedTwin)

\* two trees that serialize differently as they are, the order of creation
\* differing in a nested mapping, and have one output
C13_Witness ==
    /\ sortPc = "done"
    /\ SameUpToOrderThroughObjects(tree, twin)
    /\ \E k \in Range(tree.keys) :
          /\ Get(tree, k).t = "obj"
          /\ Get(tree, k).keys # Get(twin, k).keys
    /\ stringify(tree) # stringify(twin)
    /\ stringify(sorted) = stringify(sortedTwin)

(***************************************************************************)
(* Claims about the stages of the handler, one by one                      *)
(***************************************************************************)
ShapeFields == <<"token", "subject", "data", "packedData", "signature">>

\* the field of req.body is not what a claim needs: a string field is not a
\* string or holds nothing but white space, data is not an array or is empty
IllFormed(k) ==
    IF k = "data"
    THEN Get(body, k).t # "arr" \/ Len(Get(body, k).kids) = 0
    ELSE \/ Get(body, k).t # "str"
         \/ \A i \in DOMAIN Get(body, k).s : Get(body, k).s[i] \in WhiteSpace

\* C14: validateRequestFormat checks all five fields whatever the others are:
\* its result holds one error, keyed by the field, for each of token,
\* subject, data, packedData, signature that is ill-formed, in that order,
\* and no other error; it is empty exactly when the five fields are
\* well-formed.
C14_RequestShape ==
    WasEvaluated("shape") =>
        /\ Keys(reqFormatValidation) = SelectSeq(ShapeFields, IllFormed)
        /\ \A k \in Range(ShapeFields) :
               Cardinality({i \in DOMAIN reqFormatValidation :
                               reqFormatValidation[i].key = k})
                   = IF IllFormed(k) THEN 1 ELSE 0
        /\ (reqFormatValidation = <<>>) <=> (\A k \in Range(ShapeFields) : ~IllFormed(k))

\* a body with its five fields ill-formed, answered with the five errors
C14_Witness ==
    /\ pc = "responded"
    /\ \A k \in Range(ShapeFields) : IllFormed(k)
    /\ Get(body, "token").t = "str"
    /\ Keys(response.json.errors) = ShapeFields

(***************************************************************************)
(* The cross-validator over all its entries                                *)
(***************************************************************************)
\* the keys of the errors an entry is to contribute: TraitAttested alone when
\* no event commits the node's hash; otherwise subject when the first
\* committing event names another subject, and attester when it names
\* another attester
EntryErrorKeys(subject, dl) ==
    LET hash == Get(dl.shareData, "layer2Hash").s
    IN IF ~HasCommittingEvent(dl.logs, hash)
       THEN <<"TraitAttested">>
       ELSE (IF FirstCommittingEvent(dl.logs, hash).values.subject # subject.s
             THEN <<"subject">> ELSE <<>>)
            \o (IF FirstCommittingEvent(dl.logs, hash).values.attester
                      # Get(dl.shareData, "attester").s
                THEN <<"attester">> ELSE <<>>)

\* C15: the errors of validateOnChainProperties are the concatenation, entry
\* by entry in the order passed in, of each entry's own errors: one
\* TraitAttested error when no event matches, otherwise none, one or two
\* (subject, attester); what an entry contributes does not depend on the
\* entries before it, and every entry is checked.
C15_EveryNodeChecked ==
    /\ ocPc \in {"forEach", "done"} =>
          Keys(ocErrors)
              = Flatten([i \in 1..(ocIdx - 1) |-> EntryErrorKeys(ocSubject, ocEntries[i])])
    /\ ocPc = "done" => ocIdx = Len(ocEntries) + 1

\* the first of two entries had no matching event and the second, checked
\* all the same, a matching one that names another subject and attester
C15_Witness ==
    /\ ocPc = "done"
    /\ Len(ocEntries) = 2
    /\ Keys(ocErrors) = <<"TraitAttested", "subject", "attester">>

\* C16: the off-chain integrity validator makes both checks whatever the
\* outcome of the other: its result holds an error keyed subject exactly when
\* the signer recovered from (packedData, signature) is not the subject, and
\* an error keyed packedData exactly when packedData is not the hash
\* recomputed from the canonicalized { data, token }; so none, one or two
\* errors, at most one per key, subject first.
C16_BothOffChainChecks ==
    WasEvaluated("offchain") =>
        /\ ("subject" \in Range(Keys(basicOffChainValidation)))
               <=> ~SubjectIsRecoveredSigner
        /\ ("packedData" \in Range(Keys(basicOffChainValidation)))
               <=> ~PackedDataIsContentHash
        /\ Keys(basicOffChainValidation)
               \in {<<>>, <<"subject">>, <<"packedData">>, <<"subject", "packedData">>}

\* the hash is of another token and the signer is not the subject: both
\* errors are there
C16_Witness ==
    /\ WasEvaluated("offchain")
    /\ ~SubjectIsRecoveredSigner
    /\ ~PackedDataIsContentHash
    /\ Keys(basicOffChainValidation) = <<"subject", "packedData">>
    /\ response = Rejected(basicOffChainValidation)

\* the on-chain cross-validator is about to be called, or has been
CrossValidatorInvoked == pc = "onchain" \/ WasEvaluated("onchain")

\* C17: one lookup is launched per data node, and the on-chain
\* cross-validator is invoked only once every one of them has completed with
\* its logs: none is in flight, none has failed, and the array it is given
\* holds exactly one (node, logs) entry per data node of the claim.
C17_JoinBeforeCrossValidation ==
    /\ WasEvaluated("fetch") => Len(fetch) = Len(DataNodes)
    /\ CrossValidatorInvoked =>
          /\ WasEvaluated("fetch")
          /\ \A i \in DOMAIN fetch : fetch[i].state = "resolved"
          /\ Len(decodedDataAndLogs) = Len(DataNodes)
          /\ \E order \in [DOMAIN DataNodes -> DOMAIN DataNodes] :
                /\ \A i, j \in DOMAIN DataNodes : order[i] = order[j] => i = j
                /\ \A k \in DOMAIN decodedDataAndLogs :
                      /\ decodedDataAndLogs[k].shareData = DataNodes[order[k]]
                      /\ decodedDataAndLogs[k].logs
                             = getDecodedTxEventLogs(fetch[order[k]].tx)

\* a claim of two data nodes whose lookups have both resolved, the second
\* first, and the cross-validator then run on the two entries
C17_Witness ==
    /\ WasEvaluated("onchain")
    /\ Len(DataNodes) = 2
    /\ DataNodes[1] # DataNodes[2]
    /\ \A i \in DOMAIN fetch : fetch[i].state = "resolved"
    /\ decodedDataAndLogs[1].shareData = DataNodes[2]
    /\ decodedDataAndLogs[2].shareData = DataNodes[1]

\* C18: the per-node payload stage yields one { layer2Hash, errors } entry
\* per data node, in the order of data, errors being what the external check
\* returns for the node; when the errors of at least one node are non-empty
\* the run is rejected with the entries of all the nodes, and when all are
\* empty nothing is sent and the run goes on to the log lookups of the
\* on-chain stage.
C18_PerNodePayloadStage ==
    /\ WasEvaluated("payload") =>
          /\ Len(offChainValidation) = Len(ClaimData)
          /\ \A i \in DOMAIN ClaimData :
                /\ offChainValidation[i].layer2Hash = Get(ClaimData[i], "layer2Hash")
                /\ offChainValidation[i].errors = verifyOffChainDataIntegrity(DataNodes[i])
          /\ PayloadFailed =>
                /\ pc = "responded"
                /\ Last(evaluated) = "payload"
                /\ response = Rejected(offChainValidation)
          /\ ~PayloadFailed =>
                /\ pc \in {"launch", "await", "onchain", "failed", "responded"}
                /\ pc = "launch" => response = NoResponse
                /\ pc # "launch" => WasEvaluated("fetch")
    /\ (pc = "launch" \/ WasEvaluated("fetch")) =>
          WasEvaluated("payload") /\ ~PayloadFailed

\* of two data nodes the second alone has a payload the check refuses: the
\* run is rejected with the entries of both, the first one's errors empty
C18_Witness ==
    /\ pc = "responded"
    /\ Last(evaluated) = "payload"
    /\ Len(ClaimData) = 2
    /\ response.status = 400
    /\ Len(response.json.errors) = 2
    /\ response.json.errors[1].errors = <<>>
    /\ Len(response.json.errors[2].errors) = 2

(***************************************************************************)
(* Two calls of the handler                                                *)
(***************************************************************************)
\* a call alone, claim by claim: its canonicalized claim, and what it answers
\* before its lookups are launched (NoResponse when it launches them)
CanonicalizedAlone == [b \in RunBodies |-> canonicalize(b)]
AnsweredBeforeFanOutAlone == [b \in RunBodies |-> verdictBeforeFanOut(b)]

\* what call r collects when it runs alone and its lookups resolve in the
\* order they did: for each, its own data node with the logs of the node's
\* transaction
CollectedAlone(r) ==
    LET data == Get(CanonicalizedAlone[runs[r].body], "data").kids
    IN [k \in DOMAIN runs[r].arrived |->
           [shareData |-> data[runs[r].arrived[k]],
            logs |-> Ledger[Get(data[runs[r].arrived[k]], "tx").s[1]]]]

\* what call r answers when it runs alone, its lookups settling as they did
OutcomeAlone(r) ==
    LET before == AnsweredBeforeFanOutAlone[runs[r].body]
        errors == validateOnChainProperties(Get(runs[r].body, "subject"),
                                            CollectedAlone(r))
    IN IF before # NoResponse THEN before
       ELSE IF \E i \in DOMAIN runs[r].fetch : runs[r].fetch[i].state # "resolved"
            THEN NoResponse
            ELSE IF errors # <<>> THEN Rejected(errors)
                 ELSE Accepted(Get(runs[r].body, "token"))

\* C19: with two calls of the handler interleaved at their awaits, the
\* entries a call has collected are those of its own data nodes, each with
\* the logs of its own transaction, in the order its own lookups resolved;
\* and the call ends as it would alone: the same verdict once it has
\* answered, nothing sent once one of its lookups has failed.
C19_RunsIsolated ==
    \A r \in Runs :
        /\ runs[r].decodedDataAndLogs # 0 =>
               heap[runs[r].decodedDataAndLogs] = CollectedAlone(r)
        /\ runs[r].pc = "responded" => runs[r].response = OutcomeAlone(r)
        /\ runs[r].pc # "responded" => runs[r].response = NoResponse
        /\ runs[r].pc = "failed" <=>
               \E i \in DOMAIN runs[r].fetch : runs[r].fetch[i].state = "rejected"

\* the two calls had their lookups settle in turns, the first call's first
\* and last; the first is accepted and the second, of another claim, rejected
C19_Witness ==
    /\ runs[1].pc = "responded" /\ runs[2].pc = "responded"
    /\ runs[1].body # runs[2].body
    /\ Len(runs[1].arrived) = 2 /\ Len(runs[2].arrived) >= 1
    /\ runs[1].arrived = <<2, 1>>
    /\ runs[1].response.status = 200
    /\ runs[2].response.status = 400
    /\ Len(heap) = 2

(***************************************************************************)
(* The end of a run (specification SpecLive)                               *)
(***************************************************************************)
\* the three ways a run ends
EndedAccepted ==
    /\ pc = "responded"
    /\ response = Accepted(Get(body, "token"))
EndedRejected ==
    /\ pc = "responded"
    /\ response.status = 400
    /\ DOMAIN response.json = {"errors"}
    /\ response.json.errors # <<>>
EndedInternalFailure == pc = "failed" /\ response = NoResponse

ExactlyOneEnd ==
    /\ EndedAccepted \/ EndedRejected \/ EndedInternalFailure
    /\ ~(EndedAccepted /\ EndedRejected)
    /\ ~(EndedAccepted /\ EndedInternalFailure)
    /\ ~(EndedRejected /\ EndedInternalFailure)

\* C20: every lookup that was launched settling in the end, a run ends, and
\* stays, in exactly one of accepted, rejected with errors, internal failure
\* (nothing sent); what has been sent is never sent again or changed, a run
\* that has failed sends nothing afterwards, and an answer is either
\* { success, token } with status 200 or { errors } with status 400.
C20_SingleTerminalOutcome ==
    /\ <>[](ExactlyOneEnd /\ \A i \in DOMAIN fetch : fetch[i].state # "pending")
    /\ [][response # NoResponse => (response' = response /\ pc' = "responded")]_vars
    /\ [][pc = "failed" => (pc' = "failed" /\ response' = NoResponse)]_vars
    /\ [](pc = "responded" <=> response # NoResponse)
    /\ [](pc \in {"responded", "failed"} => ExactlyOneEnd)

\* the first of two lookups failed and the second resolved afterwards with
\* its logs: the run has ended in the internal failure, nothing sent
C20_Witness ==
    /\ EndedInternalFailure
    /\ Len(fetch) = 2
    /\ fetch[1].state = "rejected"
    /\ fetch[2].state = "resolved"
    /\ Len(decodedDataAndLogs) = 1

(***************************************************************************)
(* What an accepted verdict stands for                                     *)
(***************************************************************************)
\* C21: a run that ends accepted has evaluated the shape stage, the
\* off-chain integrity stage, the per-node payload stage and, after one
\* resolved lookup per data node, the on-chain cross-validation, in that
\* order and each with an empty result: the payload stage holds an entry
\* without errors for every data node, the cross-validator was given an
\* entry for every data node, and the claim is well-formed, signed by its
\* subject over the hash of its canonicalized { data, token }, with every
\* payload passing and every node matching the logs of its transaction.
C21_AcceptanceIsSound ==
    response.status = 200 =>
        /\ pc = "responded"
        /\ response = Accepted(Get(body, "token"))
        /\ evaluated = StageOrder
        /\ reqFormatValidation = <<>>
        /\ basicOffChainValidation = <<>>
        /\ Len(offChainValidation) = Len(ClaimData)
        /\ \A i \in DOMAIN offChainValidation : offChainValidation[i].errors = <<>>
        /\ onChainValidation = <<>>
        /\ \A i \in DOMAIN fetch : fetch[i].state = "resolved"
        /\ Len(decodedDataAndLogs) = Len(ClaimData)
        /\ \A i \in DOMAIN DataNodes :
               \E k \in DOMAIN decodedDataAndLogs :
                   /\ decodedDataAndLogs[k].shareData = DataNodes[i]
                   /\ onChainErrorsOf(Get(body, "subject"), decodedDataAndLogs[k]) = <<>>
        /\ WellFormed
        /\ SubjectIsRecoveredSigner
        /\ PackedDataIsContentHash
        /\ PayloadsPass
        /\ OnChainLogsAllMatch

\* an accepted claim of two different data nodes, the logs of the second
\* having arrived first
C21_Witness ==
    /\ response.status = 200
    /\ evaluated = StageOrder
    /\ Len(ClaimData) = 2
    /\ DataNodes[1] # DataNodes[2]
    /\ Len(decodedDataAndLogs) = 2
    /\ decodedDataAndLogs[1].shareData = DataNodes[2]

(***************************************************************************)
(* The order of the on-chain errors                                        *)
(***************************************************************************)
\* the entries of the data nodes in the order of data, each with the logs of
\* its transaction
EntriesInDataOrder ==
    [i \in DOMAIN DataNodes |->
        [shareData |-> DataNodes[i],
         logs |-> Ledger[Get(DataNodes[i], "tx").s[1]]]]

RejectedOnChain == response.status = 400 /\ Last(evaluated) = "onchain"

\* C22, as stated: the errors of a verdict rejected by the on-chain stage are
\* those of the data nodes in the order of the claim's data, whatever the
\* order in which the lookups completed; so a claim, with the ledger fixed,
\* has one error sequence.
C22_OnChainRejectionDeterministic_AsStated ==
    RejectedOnChain =>
        response.json.errors
            = validateOnChainProperties(Get(body, "subject"), EntriesInDataOrder)

\* the first data node has no matching event and the second another
\* attester; the logs of the second arrived first, and the errors are sent
\* with the second node's before the first node's
C22_Witness ==
    /\ RejectedOnChain
    /\ Len(DataNodes) = 2
    /\ decodedDataAndLogs[1].shareData = DataNodes[2]
    /\ Keys(validateOnChainProperties(Get(body, "subject"), EntriesInDataOrder))
           = <<"TraitAttested", "attester">>
    /\ Keys(response.json.errors) = <<"attester", "TraitAttested">>

====
